---- MODULE Spec2Model ----
(***************************************************************************)
(* Artificial Senses: the capture-to-publish pipeline.                     *)
(*                                                                         *)
(* Two threads of control:                                                 *)
(*   - the main thread runs AppWindow.__init__, the pyglet event loop      *)
(*     (on_draw ticks) and, after the loop returns, AppWindow.stop();      *)
(*   - the Processor thread runs Processor.run(): while _running, one      *)
(*     _process_frame() per iteration (get_frames, Segmentation.process,   *)
(*     _queue.put).                                                        *)
(* They share Processor._running and Processor._queue (a queue.Queue()).   *)
(*                                                                         *)
(* Image buffers are modelled by their provenance: every image field of a  *)
(* Frameset or Dataset holds the number of the camera frame it was         *)
(* computed from (0: not set). Distances returned by the depth frame       *)
(* (metres, a float in the code) are integers in micrometres, and so is    *)
(* depth_scale.                                                            *)
(***************************************************************************)
EXTENDS Integers, Sequences, FiniteSets, TLC

\* The camera frames whose data the model tracks. Iterations of the loop
\* after frame MaxFrames still run (the control flow never blocks on the
\* bound) but carry the single provenance Untracked and leave the queue and
\* the call counters alone.
MaxFrames == 3

Untracked == MaxFrames + 1

\* The longest detection list the segmentation model returns for one image.
MaxObjects == 3

\* How many more times a caller invokes RealSenseCamera.stop() once
\* AppWindow.stop() has closed the camera.
MaxStopCalls == 2

\* Python's None for an optional value; Some(x) is a present value.
None == << >>
Some(x) == << x >>

\* for d in range(1, 6, 2)   (app.py:187)
FrustrumFirst == 1
FrustrumStop == 6
FrustrumStep == 2

\* RealSenseCamera.CAPTURE_WIDTH, CAPTURE_HEIGHT; AppWindow.REFERENCE_HEIGHT
CAPTURE_WIDTH == 640
CAPTURE_HEIGHT == 480
REFERENCE_HEIGHT == 1080

\* Segmentation(include_labels=["person"])
IncludeLabels == {"person"}

VARIABLES
    mpc,              \* main thread: where it is in AppWindow.__init__/run()/stop()
    d,                \* _compute_frustrum's loop variable
    camera,           \* the RealSense pipeline session: "closed", "open", "stopping", "stopped"
    depth_scale,      \* RealSenseCamera.depth_scale (0 before the camera is open)
    exit_status,      \* the status the process exited with through sys.exit (None: it did not)
    tstate,           \* Processor thread: where it is in Thread.start()/run()
    running,          \* Processor._running
    queue,            \* Processor._queue
    pair,             \* get_frames' aligned (depth_frame, color_frame) of this pass of its loop
    frameset,         \* _process_frame's local frameset (None outside an iteration)
    results,          \* what the segmentation model and the depth frame answer in this iteration
    segmented,        \* what Segmentation.process returned: (segmented_image, centroids)
    dataset,          \* on_draw's local dataset: what get_dataset() last returned
    current_dataset,  \* AppWindow._current_dataset
    shown,            \* what the last on_draw drew (None: no draw yet)
    n_get_frames,     \* completed camera.get_frames() calls (tracked frames)
    n_process,        \* completed Segmentation.process() calls (tracked frames)
    n_put,            \* completed _queue.put() calls (tracked frames)
    published,        \* the Datasets put on the queue, in order
    returned,         \* the Datasets get_dataset() returned, in order
    pipeline_stops,   \* calls of self._pipeline.stop()
    stop_error,       \* a RealSenseCamera.stop() call raised
    at_stop           \* what Processor.stop() found when it cleared _running (None: not called)

vars == << mpc, d, camera, depth_scale, exit_status, tstate, running, queue,
           pair, frameset, results, segmented, dataset, current_dataset, shown,
           n_get_frames, n_process, n_put, published, returned,
           pipeline_stops, stop_error, at_stop >>

mainVars == << mpc, d, camera, depth_scale, exit_status, dataset,
               current_dataset, shown, returned, pipeline_stops, stop_error,
               at_stop >>
threadLocals == << pair, frameset, results, segmented >>
counters == << n_get_frames, n_process, n_put, published >>

\* What AppWindow.__init__ and AppWindow.stop leave alone on the consumer side.
drawVars == << dataset, current_dataset, shown, returned >>
\* The bookkeeping of exit, camera.stop() and Processor.stop() outside those
\* calls.
closeVars == << exit_status, pipeline_stops, stop_error, at_stop >>

----------------------------------------------------------------------------
\* Data

\* int(x / y) of Python for integers: the quotient truncated toward zero.
TruncDiv(x, y) ==
    IF (x >= 0) = (y > 0)
    THEN (IF x >= 0 THEN x ELSE -x) \div (IF y > 0 THEN y ELSE -y)
    ELSE -((IF x >= 0 THEN x ELSE -x) \div (IF y > 0 THEN y ELSE -y))

\* The aligned frame pairs wait_for_frames/align.process can deliver: each
\* of the two frames is there or missing.
Pairs == [ depth : BOOLEAN, color : BOOLEAN ]
CompletePair == [ depth |-> TRUE, color |-> TRUE ]

\* get_frames() testing the depth frame only.
PairIncompleteDepthOnly(p) == ~p.depth

\* get_frames(): `if not depth_frame or not color_frame: continue`
PairIncomplete(p) == ~p.depth \/ ~p.color

\* A Frameset whose point cloud is still the one computed for the frame
\* before (the rs.pointcloud object is shared between get_frames calls).
FramesetStalePointcloud(f, p) ==
    [ depth_frame         |-> IF p.depth THEN f ELSE 0,
      depth_image         |-> IF p.depth THEN f ELSE 0,
      color_image         |-> IF p.color THEN f ELSE 0,
      pointcloud_vertexes |-> f - 1,
      pointcloud_colors   |-> f - 1 ]

\* camera.Frameset as built by RealSenseCamera.get_frames from the aligned
\* pair p of frame f: color_image from the color frame, everything else
\* (colorized depth, point cloud and its colors) from the depth frame.
Frameset(f, p) ==
    [ depth_frame         |-> IF p.depth THEN f ELSE 0,
      depth_image         |-> IF p.depth THEN f ELSE 0,
      color_image         |-> IF p.color THEN f ELSE 0,
      pointcloud_vertexes |-> IF p.depth THEN f ELSE 0,
      pointcloud_colors   |-> IF p.depth THEN f ELSE 0 ]

\* The mask polygons the model can return, by their moments; the last one
\* is degenerate (zero area).
Polygons ==
    { [ m00 |-> 4, m10 |-> 10, m01 |-> 6 ],
      [ m00 |-> 2, m10 |-> 6,  m01 |-> 8 ],
      [ m00 |-> 0, m10 |-> 0,  m01 |-> 0 ] }

\* One detected object: its class label and its mask polygon.
Objects == [ label : {"person", "chair"}, polygon : Polygons ]

\* The pixels a centroid can fall on, and the depth frames by what
\* get_distance answers there (0: unreadable).
Pixels ==
    { << TruncDiv(p.m10, p.m00), TruncDiv(p.m01, p.m00) >> :
        p \in { q \in Polygons : q.m00 # 0 } }
Readings == {0, 999, 2500}
DepthMaps == [ Pixels -> Readings ]

\* The depth scales of the supported sensors (micrometres per depth unit).
DepthScales == {250, 1000}

\* Every answer of the model and the depth frame, up to MaxObjects objects.
SeqsUpTo(S, n) == UNION { [ 1..k -> S ] : k \in 0..n }
AllInputs == [ result : SeqsUpTo(Objects, MaxObjects), distance : DepthMaps ]

\* The answers the pipeline is run on: no detection; objects of every kind.
PipelineInputs ==
    LET near == [ px \in Pixels |-> IF px[1] = 2 THEN 0 ELSE 2500 ]
        P(i) == CHOOSE p \in Polygons : p.m00 = i
    IN  { [ result |-> << >>, distance |-> near ],
          [ result |-> << [ label |-> "person", polygon |-> P(4) ],
                          [ label |-> "chair",  polygon |-> P(2) ],
                          [ label |-> "person", polygon |-> P(0) ],
                          [ label |-> "person", polygon |-> P(2) ] >>,
            distance |-> near ] }

\* A generator tested like a list: false when it yields nothing.
ResultsTruthyAsList(result) == Len(result) > 0

\* Segmentation.process: `if results:` on the generator predict(stream=True)
\* returns, which is true whatever it yields.
ResultsTruthy(result) == TRUE

\* Segmentation.process keeping the objects whose label is NOT included.
LabelIncludedInverted(label) == label \notin IncludeLabels

\* Segmentation.process: `if label not in self._include_labels: continue`
LabelIncluded(label) == label \in IncludeLabels

\* Segmentation.process, first loop: all_contours, the mask polygons of the
\* objects with an included label, from object i on.
RECURSIVE AllContours(_, _)
AllContours(result, i) ==
    IF i > Len(result) THEN << >>
    ELSE IF ~LabelIncluded(result[i].label) THEN AllContours(result, i + 1)
    ELSE << result[i].polygon >> \o AllContours(result, i + 1)

\* A centroid loop without the zero-area test (a zero-area polygon gets the
\* centroid (0, 0)).
HasAreaAlways(moments) == TRUE

\* Segmentation.process: `if moments["m00"] != 0:`
HasArea(moments) == moments.m00 # 0

\* Segmentation.process, second loop: the centroids of the contours from
\* contour i on, (cx, cy, depth_frame.get_distance(cx, cy)).
RECURSIVE Centroids(_, _, _)
Centroids(contours, distance, i) ==
    IF i > Len(contours) THEN << >>
    ELSE IF ~HasArea(contours[i]) THEN Centroids(contours, distance, i + 1)
    ELSE LET cx == IF contours[i].m00 = 0 THEN 0
                   ELSE TruncDiv(contours[i].m10, contours[i].m00)
             cy == IF contours[i].m00 = 0 THEN 0
                   ELSE TruncDiv(contours[i].m01, contours[i].m00)
             px == << cx, cy >>
         IN  << << cx, cy, IF px \in DOMAIN distance THEN distance[px] ELSE 0 >> >>
                 \o Centroids(contours, distance, i + 1)

\* Segmentation.process(color_image, depth_frame) when the model answers
\* `result` and the depth frame reads `distance`: the overlay starts as
\* zeros (base 0); with results, the included masks are drawn and blended
\* over color_image. The centroids carry the depth frame they were read from.
SegmentationProcess(color_image, depth_frame, result, distance) ==
    IF ResultsTruthy(result)
    THEN [ segmented_image |-> [ base  |-> color_image,
                                 masks |-> AllContours(result, 1) ],
           centroids |-> [ of    |-> depth_frame,
                           items |-> Centroids(AllContours(result, 1), distance, 1) ] ]
    ELSE [ segmented_image |-> [ base |-> 0, masks |-> << >> ],
           centroids |-> [ of |-> depth_frame, items |-> << >> ] ]

\* A conversion that rounds to the nearest unit.
ToUnitsRounded(c2, scale) == TruncDiv(2 * c2 + scale, 2 * scale)

\* _process_frame: int(c[2] / self._camera.depth_scale)
ToUnits(c2, scale) == TruncDiv(c2, scale)

\* _process_frame: [(c[0], c[1], int(c[2] / depth_scale)) for c in centroids]
ConvertCentroids(items, scale) ==
    [ i \in 1..Len(items) |->
        << items[i][1], items[i][2], ToUnits(items[i][3], scale) >> ]

\* The Dataset that _process_frame constructs from its locals.
MakeDataset(fs, seg, scale) ==
    [ color_image          |-> fs.color_image,
      depth_paletted_image |-> fs.depth_image,
      segmented_image      |-> seg.segmented_image,
      centroids            |-> [ of    |-> seg.centroids.of,
                                 items |-> ConvertCentroids(seg.centroids.items, scale) ],
      pointcloud_vertexes  |-> fs.pointcloud_vertexes,
      pointcloud_colors    |-> fs.pointcloud_colors ]

\* get_dataset() without its emptiness test.
QueueEmptyNever(q) == FALSE

\* queue.Queue.empty()
QueueEmpty(q) == Len(q) = 0

\* A get that returns the oldest item and leaves it in the queue.
QueuePeek(q) == [ item |-> Head(q), rest |-> q ]

\* queue.Queue.get_nowait() on a non-empty queue: the oldest item, removed.
QueueGet(q) == [ item |-> Head(q), rest |-> Tail(q) ]

\* stop() that does not wait for the thread.
JoinNoWait(t) == TRUE

\* threading.Thread.join(): returns once the thread has terminated, whether
\* run() returned or raised.
JoinReturns(t) == t \in {"terminated", "crashed"}

\* Thread.is_alive(): started and run() not yet over.
ThreadAlive ==
    tstate \in {"started", "check", "get_frames", "aligned", "process", "put"}

\* on_draw assigning whatever get_dataset() returned.
HeldDatasetAssigned(cur, ds) == ds

\* on_draw: `if dataset: self._current_dataset = dataset`
HeldDataset(cur, ds) == IF ds # None THEN ds ELSE cur

\* A label for every centroid, whatever its distance.
LabelWantedAlways(distance) == TRUE

\* _draw_centroids_labels: `if distance > 0:`
LabelWanted(distance) == distance > 0

\* _draw_centroids_labels: one cursor per centroid, moved to the third
\* image slot, and a "<distance>mm" label for the wanted ones, from
\* centroid i on.
RECURSIVE DrawCentroidsLabels(_, _)
DrawCentroidsLabels(centroids, i) ==
    IF i > Len(centroids) THEN [ cursors |-> << >>, labels |-> << >> ]
    ELSE LET cx   == centroids[i][1] + CAPTURE_WIDTH * 2
             cy   == centroids[i][2] + (REFERENCE_HEIGHT - CAPTURE_HEIGHT)
             rest == DrawCentroidsLabels(centroids, i + 1)
         IN  [ cursors |-> << << cx, cy >> >> \o rest.cursors,
               labels  |-> IF LabelWanted(centroids[i][3])
                           THEN << [ x |-> cx, y |-> cy, mm |-> centroids[i][3] ] >>
                                    \o rest.labels
                           ELSE rest.labels ]

\* on_draw after get_dataset(): the held Dataset is rendered, or the
\* "Initializing RGB/depth stream" label when there is none.
Render(cur) ==
    IF cur # None
    THEN [ placeholder |-> FALSE,
           images      |-> << cur[1].color_image, cur[1].depth_paletted_image,
                              cur[1].segmented_image.base >>,
           drawn       |-> DrawCentroidsLabels(cur[1].centroids.items, 1) ]
    ELSE [ placeholder |-> TRUE,
           images      |-> << >>,
           drawn       |-> [ cursors |-> << >>, labels |-> << >> ] ]

----------------------------------------------------------------------------
Init ==
    /\ mpc = "init"
    /\ d = FrustrumFirst
    /\ camera = "closed"
    /\ depth_scale = 0
    /\ exit_status = None
    /\ tstate = "absent"
    /\ running = FALSE
    /\ queue = << >>
    /\ pair = None
    /\ frameset = None
    /\ results = None
    /\ segmented = None
    /\ dataset = None
    /\ current_dataset = None
    /\ shown = None
    /\ n_get_frames = 0
    /\ n_process = 0
    /\ n_put = 0
    /\ published = << >>
    /\ returned = << >>
    /\ pipeline_stops = 0
    /\ stop_error = FALSE
    /\ at_stop = None

----------------------------------------------------------------------------
\* Main thread: AppWindow.__init__

\* AppWindow.__init__ going on without a camera when none is found.
OpenCameraIgnoringFailure ==
    /\ mpc = "init"
    /\ \E found \in BOOLEAN, scale \in DepthScales :
          /\ camera' = IF found THEN "open" ELSE camera
          /\ depth_scale' = IF found THEN scale ELSE depth_scale
          /\ mpc' = "construct"
    /\ UNCHANGED << d, drawVars, closeVars, tstate, running, queue >>
    /\ UNCHANGED << threadLocals, counters >>

\* camera.RealSenseCamera(): opens the session and reads depth_scale, or
\* raises RuntimeError when no device is found, and then __init__ calls
\* sys.exit(1).
OpenCamera ==
    /\ mpc = "init"
    /\ \E found \in BOOLEAN, scale \in DepthScales :
          IF found
          THEN /\ camera' = "open"
               /\ depth_scale' = scale
               /\ mpc' = "construct"
               /\ exit_status' = exit_status
          ELSE /\ camera' = camera
               /\ depth_scale' = depth_scale
               /\ mpc' = "exited"
               /\ exit_status' = Some(1)
    /\ UNCHANGED << d, drawVars, pipeline_stops, stop_error, at_stop >>
    /\ UNCHANGED << tstate, running, queue >>
    /\ UNCHANGED << threadLocals, counters >>

\* processor.Processor(self._camera): _running = False, _queue = Queue()
ProcessorInit ==
    /\ mpc = "construct"
    /\ tstate' = "unstarted"
    /\ running' = FALSE
    /\ queue' = << >>
    /\ mpc' = "start"
    /\ UNCHANGED << d, camera, depth_scale, drawVars, closeVars >>
    /\ UNCHANGED << threadLocals, counters >>

\* self._processor.start(); self._current_dataset = None.
\* Thread.start() returns once the new thread is bootstrapped, which is
\* before run() has executed its first statement.
ProcessorStart ==
    /\ mpc = "start"
    /\ tstate' = "started"
    /\ current_dataset' = None
    /\ d' = FrustrumFirst
    /\ mpc' = "frustrum"
    /\ UNCHANGED << camera, depth_scale, dataset, shown, returned, closeVars >>
    /\ UNCHANGED << running, queue, threadLocals, counters >>

\* _compute_frustrum: one pass of `for d in range(1, 6, 2)`, four
\* self._camera.deproject_pixel_to_point calls on the main thread.
ComputeFrustrum ==
    /\ mpc = "frustrum"
    /\ d < FrustrumStop
    /\ d' = d + FrustrumStep
    /\ mpc' = IF d + FrustrumStep < FrustrumStop THEN "frustrum" ELSE "app_run"
    /\ UNCHANGED << camera, depth_scale, drawVars, closeVars >>
    /\ UNCHANGED << tstate, running, queue, threadLocals, counters >>

----------------------------------------------------------------------------
\* Main thread: pyglet.app.run()

\* The event loop dispatches on_draw: self.clear(), then get_dataset()
\* is called.
OnDraw ==
    /\ mpc = "app_run"
    /\ mpc' = "get_dataset"
    /\ UNCHANGED << d, camera, depth_scale, drawVars, closeVars >>
    /\ UNCHANGED << tstate, running, queue, threadLocals, counters >>

\* get_dataset(): `if self._queue.empty(): return None`; on None on_draw
\* keeps _current_dataset and renders it or the placeholder.
GetDataset ==
    /\ mpc = "get_dataset"
    /\ IF QueueEmpty(queue)
       THEN /\ dataset' = None
            /\ current_dataset' = HeldDataset(current_dataset, None)
            /\ shown' = Some(Render(HeldDataset(current_dataset, None)))
            /\ mpc' = "app_run"
       ELSE /\ UNCHANGED << dataset, current_dataset, shown >>
            /\ mpc' = "get_nowait"
    /\ UNCHANGED << d, camera, depth_scale, returned, closeVars >>
    /\ UNCHANGED << tstate, running, queue, threadLocals, counters >>

\* get_dataset(): `return self._queue.get_nowait()`, which raises queue.Empty
\* on an empty queue; then on_draw: `if dataset: self._current_dataset = dataset`
\* and the rendering of _current_dataset.
GetNowait ==
    /\ mpc = "get_nowait"
    /\ IF Len(queue) = 0
       THEN /\ mpc' = "raised_empty"
            /\ UNCHANGED << dataset, current_dataset, shown, returned, queue >>
       ELSE /\ dataset' = Some(QueueGet(queue).item)
            /\ queue' = QueueGet(queue).rest
            /\ returned' = Append(returned, QueueGet(queue).item)
            /\ current_dataset' =
                  HeldDataset(current_dataset, Some(QueueGet(queue).item))
            /\ shown' = Some(Render(HeldDataset(current_dataset,
                                                Some(QueueGet(queue).item))))
            /\ mpc' = "app_run"
    /\ UNCHANGED << d, camera, depth_scale, closeVars >>
    /\ UNCHANGED << tstate, running, threadLocals, counters >>

\* The window is closed: pyglet.app.run() returns and run() calls app.stop().
AppExit ==
    /\ mpc = "app_run"
    /\ mpc' = "stop"
    /\ UNCHANGED << d, camera, depth_scale, drawVars, closeVars >>
    /\ UNCHANGED << tstate, running, queue, threadLocals, counters >>

----------------------------------------------------------------------------
\* Main thread: AppWindow.stop()

\* AppWindow.stop() closing the camera without stopping the Processor first.
StopCameraFirst ==
    /\ mpc = "stop"
    /\ mpc' = "camera_stop"
    /\ UNCHANGED << d, camera, depth_scale, drawVars, closeVars >>
    /\ UNCHANGED << tstate, running, queue, threadLocals, counters >>

\* The thread is inside run()'s loop: `self._running = True` is done and
\* run() is not over.
LoopRunning(t) == t \in {"check", "get_frames", "aligned", "process", "put"}

\* run() with `while True:` in place of `while self._running:`.
LoopCheckForever ==
    /\ tstate = "check"
    /\ tstate' = "get_frames"
    /\ UNCHANGED << mainVars, running, queue, threadLocals, counters >>

\* Processor.stop(): self._running = False. at_stop records where the
\* thread was and what it had completed at that instant.
ProcessorStop ==
    /\ mpc = "stop"
    /\ running' = FALSE
    /\ at_stop' = Some([ looping    |-> LoopRunning(tstate),
                         get_frames |-> n_get_frames,
                         put        |-> n_put ])
    /\ mpc' = "join"
    /\ UNCHANGED << d, camera, depth_scale, drawVars >>
    /\ UNCHANGED << exit_status, pipeline_stops, stop_error >>
    /\ UNCHANGED << tstate, queue, threadLocals, counters >>

\* Processor.stop(): self.join() returns; stop() returns.
Join ==
    /\ mpc = "join"
    /\ JoinReturns(tstate)
    /\ mpc' = "camera_stop"
    /\ UNCHANGED << d, camera, depth_scale, drawVars, closeVars >>
    /\ UNCHANGED << tstate, running, queue, threadLocals, counters >>

\* self._camera.stop(): self._pipeline.stop() begins
CameraStopBegin ==
    /\ mpc = "camera_stop"
    /\ camera' = "stopping"
    /\ pipeline_stops' = pipeline_stops + 1
    /\ mpc' = "in_camera_stop"
    /\ UNCHANGED << d, depth_scale, drawVars, exit_status, stop_error, at_stop >>
    /\ UNCHANGED << tstate, running, queue, threadLocals, counters >>

\* self._pipeline.stop() returns; AppWindow.stop() and run() return.
CameraStopEnd ==
    /\ mpc = "in_camera_stop"
    /\ camera' = "stopped"
    /\ mpc' = "done"
    /\ UNCHANGED << d, depth_scale, drawVars, closeVars >>
    /\ UNCHANGED << tstate, running, queue, threadLocals, counters >>

\* RealSenseCamera.stop() called again on the camera AppWindow.stop() has
\* closed: stop() has no closed flag and calls self._pipeline.stop() once
\* more. What the SDK does with a stop on a stopped pipeline is its own
\* business: it returns or it raises.
CameraStopAgain ==
    /\ mpc = "done"
    /\ camera = "stopped"
    /\ ~stop_error
    /\ pipeline_stops < 1 + MaxStopCalls
    /\ pipeline_stops' = pipeline_stops + 1
    /\ \E raises \in BOOLEAN : stop_error' = raises
    /\ UNCHANGED << mpc, d, camera, depth_scale, drawVars, exit_status, at_stop >>
    /\ UNCHANGED << tstate, running, queue, threadLocals, counters >>

----------------------------------------------------------------------------
\* Processor thread: run()

\* run(): self._running = True
Run ==
    /\ tstate = "started"
    /\ running' = TRUE
    /\ tstate' = "check"
    /\ UNCHANGED << mainVars, queue, threadLocals, counters >>

\* run(): `while self._running:`; a true test enters _process_frame, which
\* calls self._camera.get_frames(); a false one ends run() and the thread.
LoopCheck ==
    /\ tstate = "check"
    /\ tstate' = IF running THEN "get_frames" ELSE "terminated"
    /\ UNCHANGED << mainVars, running, queue, threadLocals, counters >>

\* get_frames(): wait_for_frames() and align.process() deliver the pair p.
WaitForFramesPair(p) ==
    /\ tstate = "get_frames"
    /\ pair' = Some(p)
    /\ tstate' = "aligned"
    /\ UNCHANGED << mainVars, running, queue, frameset, results, segmented >>
    /\ UNCHANGED counters

WaitForFrames == \E p \in Pairs : WaitForFramesPair(p)

\* get_frames(): a pair with a missing frame is dropped (`continue`): the
\* loop goes back to wait_for_frames(), the locals still holding the pair.
GetFramesSkip ==
    /\ tstate = "aligned"
    /\ PairIncomplete(pair[1])
    /\ tstate' = "get_frames"
    /\ UNCHANGED << mainVars, running, queue, threadLocals, counters >>

\* get_frames() returns the Frameset built from the pair.
GetFramesReturn ==
    /\ tstate = "aligned"
    /\ ~PairIncomplete(pair[1])
    /\ IF n_get_frames < MaxFrames
       THEN /\ frameset' = Some(Frameset(n_get_frames + 1, pair[1]))
            /\ n_get_frames' = n_get_frames + 1
       ELSE /\ frameset' = Some(Frameset(Untracked, pair[1]))
            /\ n_get_frames' = n_get_frames
    /\ pair' = None
    /\ tstate' = "process"
    /\ UNCHANGED << mainVars, running, queue, results, segmented >>
    /\ UNCHANGED << n_process, n_put, published >>

\* get_frames() raises (wait_for_frames: the device stopped responding).
\* Nothing in run() catches it: the thread ends with the exception.
GetFramesRaise ==
    /\ tstate = "get_frames"
    /\ tstate' = "crashed"
    /\ UNCHANGED << mainVars, running, queue, threadLocals, counters >>

\* A frame of the tracked ones (its data is followed through the queue).
Tracked(fs) == fs.depth_frame # Untracked /\ fs.color_image # Untracked

\* self._segmentation.process(frameset.color_image, frameset.depth_frame)
\* returns, the model and the depth frame answering some input of `inputs`.
SegmentationReturnFrom(inputs) ==
    /\ tstate = "process"
    /\ \E input \in inputs :
          /\ results' = Some(input)
          /\ segmented' = Some(SegmentationProcess(frameset[1].color_image,
                                                   frameset[1].depth_frame,
                                                   input.result, input.distance))
    /\ n_process' = IF Tracked(frameset[1]) THEN n_process + 1 ELSE n_process
    /\ tstate' = "put"
    /\ UNCHANGED << mainVars, running, queue, pair, frameset >>
    /\ UNCHANGED << n_get_frames, n_put, published >>

SegmentationReturn == SegmentationReturnFrom(PipelineInputs)

\* _process_frame publishing its Dataset twice.
QueuePutTwice ==
    /\ tstate = "put"
    /\ queue' = queue \o << MakeDataset(frameset[1], segmented[1], depth_scale),
                            MakeDataset(frameset[1], segmented[1], depth_scale) >>
    /\ published' = published
                      \o << MakeDataset(frameset[1], segmented[1], depth_scale),
                            MakeDataset(frameset[1], segmented[1], depth_scale) >>
    /\ n_put' = n_put + 2
    /\ pair' = None
    /\ frameset' = None
    /\ results' = None
    /\ segmented' = None
    /\ tstate' = "check"
    /\ UNCHANGED << mainVars, running, n_get_frames, n_process >>

\* The centroids are converted and self._queue.put(Dataset(...)) appends the
\* Dataset: the queue is unbounded.
QueuePut ==
    /\ tstate = "put"
    /\ IF Tracked(frameset[1])
       THEN /\ queue' = Append(queue,
                               MakeDataset(frameset[1], segmented[1], depth_scale))
            /\ published' = Append(published,
                               MakeDataset(frameset[1], segmented[1], depth_scale))
            /\ n_put' = n_put + 1
       ELSE /\ queue' = queue
            /\ published' = published
            /\ n_put' = n_put
    /\ pair' = None
    /\ frameset' = None
    /\ results' = None
    /\ segmented' = None
    /\ tstate' = "check"
    /\ UNCHANGED << mainVars, running, n_get_frames, n_process >>

----------------------------------------------------------------------------
MainNext ==
    \/ OpenCamera
    \/ ProcessorInit
    \/ ProcessorStart
    \/ ComputeFrustrum
    \/ OnDraw
    \/ GetDataset
    \/ GetNowait
    \/ AppExit
    \/ ProcessorStop
    \/ Join
    \/ CameraStopBegin
    \/ CameraStopEnd

ThreadNext ==
    \/ Run
    \/ LoopCheck
    \/ WaitForFrames
    \/ GetFramesSkip
    \/ GetFramesReturn
    \/ GetFramesRaise
    \/ SegmentationReturn
    \/ QueuePut

Next == MainNext \/ ThreadNext

Spec == Init /\ [][Next]_vars

\* The Processor thread is scheduled whenever it can run; the main thread
\* executes its own code and dispatches draw ticks for as long as the event
\* loop runs. Closing the window (AppExit) is the user's choice and is under
\* no fairness. The camera does not deliver incomplete pairs for ever: a
\* get_frames() call that keeps waiting gets a complete pair.
MainSteps ==
    \/ OpenCamera
    \/ ProcessorInit
    \/ ProcessorStart
    \/ ComputeFrustrum
    \/ OnDraw
    \/ GetDataset
    \/ GetNowait
    \/ ProcessorStop
    \/ Join
    \/ CameraStopBegin
    \/ CameraStopEnd

FairSpec ==
    /\ Init
    /\ [][Next]_vars
    /\ WF_vars(ThreadNext)
    /\ WF_vars(MainSteps)
    /\ SF_vars(WaitForFramesPair(CompletePair))

\* The camera adapter's stop() exercised beyond what AppWindow does with it:
\* the program, and further stop() calls once the camera is closed.
CloseNext == Next \/ CameraStopAgain

CloseSpec == Init /\ [][CloseNext]_vars

\* Segmentation.process and what follows it, on every input: the first loop
\* iteration from the return of get_frames() (frame 1, a complete pair) to
\* the draw of its Dataset.
SegInit ==
    /\ mpc = "app_run"
    /\ d = FrustrumFirst + 3 * FrustrumStep
    /\ camera = "open"
    /\ depth_scale \in DepthScales
    /\ exit_status = None
    /\ tstate = "process"
    /\ running = TRUE
    /\ queue = << >>
    /\ pair = None
    /\ frameset = Some(Frameset(1, CompletePair))
    /\ results = None
    /\ segmented = None
    /\ dataset = None
    /\ current_dataset = None
    /\ shown = None
    /\ n_get_frames = 1
    /\ n_process = 0
    /\ n_put = 0
    /\ published = << >>
    /\ returned = << >>
    /\ pipeline_stops = 0
    /\ stop_error = FALSE
    /\ at_stop = None

SegmentationAny == SegmentationReturnFrom(AllInputs)

SegNext ==
    \/ SegmentationAny
    \/ QueuePut
    \/ OnDraw
    \/ GetDataset
    \/ GetNowait

SegSpec == SegInit /\ [][SegNext]_vars

----------------------------------------------------------------------------
\* Properties

\* Processor.stop() has returned to AppWindow.stop().
StopReturned == mpc \in {"camera_stop", "in_camera_stop", "done"}

\* A camera.get_frames() or Segmentation.process() call is in flight.
CallInFlight == tstate \in {"get_frames", "aligned", "process"}

\* The event loop (pyglet.app.run) is running and dispatching on_draw.
InRenderLoop == mpc \in {"app_run", "get_dataset", "get_nowait"}

\* All six fields of a Dataset are set and derive from the same frame.
Coherent(ds) ==
    \E f \in 1..MaxFrames :
        /\ ds.color_image = f
        /\ ds.depth_paletted_image = f
        /\ ds.segmented_image.base = f
        /\ ds.centroids.of = f
        /\ ds.pointcloud_vertexes = f
        /\ ds.pointcloud_colors = f

\* C1: whenever get_dataset() returns a Dataset, it is the most recently
\* published one (drop-old: after publishing A then B, B is returned and A
\* never is).
C1_DropOld ==
    [][ (mpc = "get_nowait" /\ mpc' = "app_run")
            => dataset' = Some(queue[Len(queue)]) ]_vars

\* C2: in every reachable state the handoff holds 0 or 1 Dataset, never more.
C2_AtMostOne == Len(queue) <= 1

\* C3: after Processor.stop() has returned the background loop has
\* terminated: no get_frames() or process() call is in flight or begins, and
\* no further Dataset is published.
C3_ShutdownComplete ==
    /\ [](StopReturned => tstate \in {"terminated", "crashed"})
    /\ [][ StopReturned =>
             UNCHANGED << tstate, queue, threadLocals, counters >> ]_vars

C3_Witness ==
    /\ mpc = "done"
    /\ tstate = "terminated"
    /\ n_put >= 2

\* C4: under fair scheduling, and with every get_frames() and process()
\* call returning, a stop() called after start() has returned eventually
\* returns.
C4_StopReturns == (mpc = "stop") ~> StopReturned

\* C5: the running flag is true when start() returns, and once stop() has
\* cleared it the flag never becomes true again.
C5_Lifecycle ==
    [][ /\ (mpc = "start" /\ mpc' # "start") => running'
        /\ (mpc \in {"join", "camera_stop", "in_camera_stop", "done"})
              => ~running' ]_vars

\* C6: in AppWindow.stop the camera session is closed only after the
\* Processor loop has terminated: camera.stop() never executes while a
\* get_frames() or process() call is in flight, and no get_frames() call
\* starts once camera.stop() has begun.
C6_CameraClosedAfterLoop ==
    /\ [](camera \in {"stopping", "stopped"} => ~CallInFlight)
    /\ [][ (camera \in {"stopping", "stopped"} /\ tstate' = "get_frames")
              => tstate \in {"get_frames", "aligned"} ]_vars

C6_Witness ==
    /\ camera = "stopped"
    /\ tstate = "terminated"
    /\ n_get_frames >= 1

\* C7: neither side blocks on the handoff: a publish completes whatever the
\* consumer is doing, and get_dataset() returns at once without raising:
\* None when nothing is buffered, otherwise it removes and returns one
\* buffered Dataset.
C7_NonBlockingHandoff ==
    /\ [](mpc # "raised_empty")
    /\ [](tstate = "put" => ENABLED QueuePut)
    /\ [](mpc = "get_dataset" => ENABLED GetDataset)
    /\ [](mpc = "get_nowait" => ENABLED GetNowait)
    /\ [][ /\ (mpc = "get_dataset" /\ mpc' = "app_run")
               => (Len(queue) = 0 /\ dataset' = None /\ queue' = queue)
           /\ (mpc = "get_dataset" /\ mpc' = "get_nowait")
               => (Len(queue) > 0 /\ queue' = queue)
           /\ (mpc = "get_nowait" /\ mpc' # "get_nowait")
               => /\ Len(queue) > 0
                  /\ dataset' = Some(Head(queue))
                  /\ queue' = Tail(queue)
                  /\ Len(queue') = Len(queue) - 1 ]_vars

C7_Witness ==
    /\ mpc = "app_run"
    /\ dataset # None
    /\ Len(queue) >= 1
    /\ tstate = "put"

\* C8 (as stated): while the Processor thread is alive no other thread calls
\* any method of the camera adapter or of the segmentation model.
C8_OnlyProcessorTouches ==
    [][ ThreadAlive => (d' = d /\ camera' = camera) ]_vars

\* C8 (amended): while the Processor thread is alive no other thread calls
\* camera.get_frames(), camera.stop() or Segmentation.process(); every such
\* call is a step of the Processor thread. (The main thread does call
\* camera.deproject_pixel_to_point while the thread is alive.)
C8_NoStreamingCallElsewhere ==
    [][ /\ ThreadAlive => camera' = camera
        /\ (n_get_frames' # n_get_frames \/ n_process' # n_process
               \/ frameset' # frameset \/ segmented' # segmented)
              => (tstate # tstate' /\ mpc' = mpc) ]_vars

C8_Witness ==
    /\ mpc = "frustrum"
    /\ d > FrustrumFirst
    /\ tstate = "get_frames"

\* C9: if camera.get_frames() raises inside the Processor loop, the failure
\* is fatal for the application: it does not keep running its render loop.
C9_FailureIsFatal == (tstate = "crashed") ~> ~InRenderLoop

\* C10: every Dataset published and every Dataset returned by get_dataset()
\* is complete and coherent: all six fields are set and derive from the
\* Frameset and segmentation result of one single loop iteration.
C10_DatasetCoherent ==
    /\ \A i \in 1..Len(queue) : Coherent(queue[i])
    /\ dataset # None => Coherent(dataset[1])
    /\ current_dataset # None => Coherent(current_dataset[1])

C10_Witness ==
    /\ dataset # None
    /\ dataset[1].color_image = 2
    /\ Len(queue) >= 1

\* C11: in on_draw the "initializing" placeholder is shown exactly when no
\* Dataset has ever been retrieved; once one has been retrieved the held
\* Dataset never reverts to none, it changes only to the Dataset that
\* get_dataset() returned in that tick, and it stays unchanged when
\* get_dataset() returns None.
C11_HeldDataset ==
    /\ [](shown # None => (shown[1].placeholder <=> Len(returned) = 0))
    /\ [](current_dataset = None <=> Len(returned) = 0)
    /\ [][ /\ current_dataset # None => current_dataset' # None
           /\ current_dataset' # current_dataset
                 => /\ mpc = "get_nowait"
                    /\ dataset' # None
                    /\ current_dataset' = dataset'
           /\ (mpc = "get_dataset" /\ mpc' = "app_run")
                 => /\ dataset' = None
                    /\ current_dataset' = current_dataset
                    /\ shown' = Some(Render(current_dataset)) ]_vars

C11_Witness ==
    /\ mpc = "app_run"
    /\ dataset = None
    /\ current_dataset # None
    /\ shown # None
    /\ ~shown[1].placeholder
    /\ Len(returned) >= 2

\* Segmentation.process has returned for a frame on which the model
\* detected nothing.
ZeroDetections ==
    /\ tstate = "put"
    /\ results # None
    /\ segmented # None
    /\ Len(results[1].result) = 0

\* C12 (as stated): when the model returns zero detections for a frame,
\* Segmentation.process returns an all-zero overlay image and an empty
\* centroid list.
C12_ZeroOverlay ==
    ZeroDetections =>
        /\ segmented[1].segmented_image.base = 0
        /\ segmented[1].segmented_image.masks = << >>
        /\ segmented[1].centroids.items = << >>

\* C12 (amended): when the model returns zero detections for a frame,
\* Segmentation.process returns, without raising, the colour image of that
\* frame with no mask drawn on it (not a zeroed image) and an empty
\* centroid list.
C12_ZeroDetectionsColorImage ==
    /\ tstate # "crashed"
    /\ ZeroDetections =>
          /\ segmented[1].segmented_image.base = frameset[1].color_image
          /\ segmented[1].segmented_image.base # 0
          /\ segmented[1].segmented_image.masks = << >>
          /\ segmented[1].centroids.items = << >>

C12_Witness ==
    /\ ZeroDetections
    /\ frameset[1].color_image = 1
    /\ segmented[1].segmented_image.base = 1

\* C13: RealSenseCamera.stop() is idempotent: a call on the camera that is
\* already closed is a no-op, it does not reach the pipeline again, raises
\* no error and changes no state.
C13_StopIdempotent ==
    [][ camera = "stopped" => UNCHANGED << camera, pipeline_stops, stop_error >> ]_vars

\* The labels _draw_centroids_labels owes to the centroids c: one per
\* centroid of distance > 0, in order, showing that distance.
PositiveDistances(c) == SelectSeq(c, LAMBDA x : x[3] > 0)

\* C14: when the depth sample at a centroid pixel is unreadable (reading 0)
\* the centroid published in the Dataset has distance 0, and the consumer
\* draws no distance label for a centroid of distance 0: a label is drawn
\* only, and always, when distance > 0.
C14_UnreadableDepth ==
    /\ [][ (tstate = "put" /\ tstate' = "check") =>
             LET src == segmented[1].centroids.items
                 out == published'[Len(published')].centroids.items
             IN  /\ Len(published') = Len(published) + 1
                 /\ Len(out) = Len(src)
                 /\ \A i \in 1..Len(src) :
                       /\ src[i][3] = results[1].distance[<< src[i][1], src[i][2] >>]
                       /\ src[i][3] = 0 => out[i][3] = 0 ]_vars
    /\ [](shown # None /\ ~shown[1].placeholder =>
             LET c  == current_dataset[1].centroids.items
                 dr == shown[1].drawn
             IN  /\ Len(dr.cursors) = Len(c)
                 /\ Len(dr.labels) = Len(PositiveDistances(c))
                 /\ \A k \in 1..Len(dr.labels) :
                       /\ dr.labels[k].mm > 0
                       /\ dr.labels[k].mm = PositiveDistances(c)[k][3])

C14_Witness ==
    /\ shown # None
    /\ ~shown[1].placeholder
    /\ Len(current_dataset[1].centroids.items) = 2
    /\ current_dataset[1].centroids.items[1][3] = 0
    /\ current_dataset[1].centroids.items[2][3] > 0
    /\ Len(shown[1].drawn.cursors) = 2
    /\ Len(shown[1].drawn.labels) = 1

\* C15: if opening the camera fails at startup the application exits with a
\* non-zero status before the Processor is constructed or started: no
\* thread is spawned, no get_frames() call occurs, no Dataset is ever
\* published, and nothing runs after the exit.
C15_NoCameraExits ==
    /\ []((mpc # "init" /\ camera = "closed") =>
             /\ mpc = "exited"
             /\ exit_status # None
             /\ exit_status[1] # 0
             /\ tstate = "absent"
             /\ ~running
             /\ n_get_frames = 0
             /\ n_process = 0
             /\ n_put = 0
             /\ published = << >>
             /\ queue = << >>)
    /\ []((mpc # "exited") => exit_status = None)
    /\ [][ mpc # "exited" ]_vars

C15_Witness ==
    /\ mpc = "exited"
    /\ exit_status = Some(1)
    /\ tstate = "absent"

\* C16: each iteration of the Processor loop performs, in this order, one
\* get_frames() call, one Segmentation.process() call on that frameset and
\* one publish: the published Datasets are as many as the completed
\* iterations, and publishes <= process calls <= get_frames calls
\* <= publishes + 1.
C16_OnePerIteration ==
    /\ [](/\ n_put <= n_process
          /\ n_process <= n_get_frames
          /\ n_get_frames <= n_put + 1
          /\ Len(published) = n_put)
    /\ [][ /\ n_get_frames' # n_get_frames =>
                /\ n_get_frames' = n_get_frames + 1
                /\ n_process = n_get_frames
                /\ n_put = n_get_frames
                /\ tstate' = "process"
           /\ n_process' # n_process =>
                /\ n_process' = n_process + 1
                /\ n_get_frames = n_process + 1
                /\ frameset' = frameset
                /\ segmented'[1].segmented_image.base = frameset[1].color_image
                /\ segmented'[1].centroids.of = frameset[1].depth_frame
                /\ tstate' = "put"
           /\ published' # published =>
                /\ n_put' = n_put + 1
                /\ n_process = n_put + 1
                /\ Len(published') = Len(published) + 1
                /\ published'[n_put'].color_image = n_put'
                /\ tstate' = "check" ]_vars

C16_Witness ==
    /\ n_put = 2
    /\ n_process = 3
    /\ n_get_frames = 3
    /\ tstate = "put"

\* The Frameset fs holds data of every one of its five fields.
FramesetComplete(fs) ==
    /\ fs.depth_frame # 0
    /\ fs.depth_image # 0
    /\ fs.color_image # 0
    /\ fs.pointcloud_vertexes # 0
    /\ fs.pointcloud_colors # 0

\* C17: get_frames() never returns a Frameset built from a pair in which the
\* aligned depth frame or the aligned color frame is missing: such a pair is
\* skipped without raising and the call waits for the next pair; the first
\* pair that has both frames is returned as a Frameset, so the call returns
\* once such a pair has arrived.
C17_SkipsIncompletePairs ==
    /\ [](frameset # None => FramesetComplete(frameset[1]))
    /\ [][ /\ (tstate = "aligned" /\ tstate' # tstate
                 /\ (~pair[1].depth \/ ~pair[1].color)) =>
                /\ tstate' = "get_frames"
                /\ frameset' = frameset
                /\ n_get_frames' = n_get_frames
           /\ (tstate = "aligned" /\ tstate' # tstate
                 /\ pair[1].depth /\ pair[1].color) =>
                /\ tstate' = "process"
                /\ frameset' # None
                /\ FramesetComplete(frameset'[1]) ]_vars
    /\ ((tstate = "aligned" /\ pair = Some(CompletePair)) ~> (tstate = "process"))

\* A get_frames() call has skipped a pair with a missing frame and waits
\* for the next one.
C17_Witness ==
    /\ tstate = "get_frames"
    /\ pair # None
    /\ pair[1].depth
    /\ ~pair[1].color
    /\ frameset = None
    /\ n_get_frames = 1

\* The detected objects that owe a centroid: label in the allow-list and a
\* mask polygon of non-zero area.
OwedCentroids(result) ==
    SelectSeq(result, LAMBDA o : o.label \in IncludeLabels /\ o.polygon.m00 # 0)

\* C18: the centroid list returned by Segmentation.process has exactly one
\* centroid for each detected object with a label in the allow-list and a
\* mask polygon of non-zero area, in detection order, and none for an
\* object with another label or with a zero-area polygon.
C18_CentroidPerObject ==
    (tstate = "put" /\ results # None /\ segmented # None) =>
        LET owed  == OwedCentroids(results[1].result)
            items == segmented[1].centroids.items
        IN  /\ Len(items) = Len(owed)
            /\ \A k \in 1..Len(items) :
                  /\ items[k][1] * owed[k].polygon.m00 <= owed[k].polygon.m10
                  /\ owed[k].polygon.m10 < (items[k][1] + 1) * owed[k].polygon.m00
                  /\ items[k][2] * owed[k].polygon.m00 <= owed[k].polygon.m01
                  /\ owed[k].polygon.m01 < (items[k][2] + 1) * owed[k].polygon.m00
                  /\ items[k][3] = results[1].distance[<< items[k][1], items[k][2] >>]

C18_Witness ==
    /\ tstate = "put"
    /\ results # None
    /\ Len(results[1].result) = 3
    /\ results[1].result[1].label = "chair"
    /\ results[1].result[1].polygon.m00 # 0
    /\ results[1].result[2].label = "person"
    /\ results[1].result[2].polygon.m00 = 0
    /\ results[1].result[3].label = "person"
    /\ results[1].result[3].polygon.m00 # 0
    /\ Len(segmented[1].centroids.items) = 1

\* C19: for every centroid (cx, cy, d) returned by Segmentation.process the
\* published Dataset carries a centroid with the same (cx, cy) and the
\* integer distance d / depth_scale truncated toward zero; the list length
\* and order are preserved.
C19_DistanceInUnits ==
    [][ (tstate = "put" /\ tstate' = "check") =>
          LET src == segmented[1].centroids.items
              out == published'[Len(published')].centroids.items
          IN  /\ published' = Append(published, published'[Len(published')])
              /\ Len(out) = Len(src)
              /\ \A i \in 1..Len(src) :
                    /\ out[i][1] = src[i][1]
                    /\ out[i][2] = src[i][2]
                    /\ out[i][3] \in Int
                    /\ out[i][3] * depth_scale <= src[i][3]
                    /\ src[i][3] < (out[i][3] + 1) * depth_scale ]_vars

C19_Witness ==
    /\ Len(published) = 1
    /\ depth_scale = 250
    /\ Len(published[1].centroids.items) = 2
    /\ published[1].centroids.items[1] = << 2, 1, 3 >>
    /\ published[1].centroids.items[2] = << 3, 4, 10 >>

\* The consumer polls: the event loop runs and dispatches draw ticks.
Polling == mpc \in {"app_run", "get_dataset", "get_nowait"}

\* C20: the handoff delivers the Datasets in publication order without loss
\* or duplication: the non-None values returned by successive get_dataset()
\* calls are a prefix of the published sequence (what is not yet returned is
\* buffered, in order), and a consumer that keeps polling eventually
\* receives every published Dataset.
C20_FifoDelivery ==
    /\ [](published = returned \o queue)
    /\ [](\A i, j \in 1..Len(returned) : returned[i] = returned[j] => i = j)
    /\ \A i \in 1..MaxFrames :
          (Len(published) >= i) ~> (Len(returned) >= i \/ ~Polling)

C20_Witness ==
    /\ Len(returned) = 2
    /\ Len(queue) = 1
    /\ Len(published) = 3
    /\ returned[2].color_image = 2

\* Processor.stop() has cleared the running flag while the loop was running.
ClearedInLoop == at_stop # None /\ at_stop[1].looping

\* C21: once Processor.stop() has cleared the running flag while the loop is
\* running, the flag stays clear and the thread starts no new iteration
\* after the one in flight: at most one further get_frames() call completes
\* and at most one further Dataset is published after that point, and that
\* Dataset is still in the handoff, which nothing touches, after stop() has
\* returned.
C21_NoNewIteration ==
    /\ [](ClearedInLoop =>
             /\ ~running
             /\ n_get_frames <= at_stop[1].get_frames + 1
             /\ n_put <= at_stop[1].put + 1
             /\ Len(published) <= at_stop[1].put + 1)
    /\ [][ (ClearedInLoop /\ tstate = "check" /\ tstate' # tstate)
              => tstate' = "terminated" ]_vars
    /\ []((ClearedInLoop /\ StopReturned /\ n_put = at_stop[1].put + 1) =>
             /\ Len(queue) >= 1
             /\ queue[Len(queue)] = published[n_put])
    /\ [][ (ClearedInLoop /\ StopReturned) => queue' = queue ]_vars

C21_Witness ==
    /\ ClearedInLoop
    /\ mpc = "done"
    /\ tstate = "terminated"
    /\ n_get_frames = at_stop[1].get_frames + 1
    /\ n_put = at_stop[1].put + 1
    /\ n_put = 2
    /\ Len(queue) >= 1
    /\ queue[Len(queue)].color_image = 2

====
